---- MODULE Spec2Model ----
(***************************************************************************)
(* A model of src/client.py (gyre's Stability-SDK client):                 *)
(*   - StabilityInference.generate, the parameter-to-request assembly,     *)
(*   - emit_request / emit_async_request, the two submission generators,   *)
(*     with the SIGINT handler they install and the server they talk to,   *)
(*   - process_artifacts_from_answers, the artifact demultiplexer.         *)
(*                                                                         *)
(* Python values are encoded as follows.  An optional scalar is None       *)
(* (<<>>) or Some(v) (<<v>>); floats are integers.  A value whose Python   *)
(* type the code inspects (prompt, guidance_prompt, seed) is a record     *)
(* tagged with its type name, [t |-> "str", s |-> ...].  A keyword dict,   *)
(* and the protobuf message built from it, is a function whose DOMAIN is   *)
(* the set of keys that were set: a field is present iff its key is in     *)
(* DOMAIN.                                                                 *)
(***************************************************************************)
EXTENDS Integers, Sequences, FiniteSets, TLC

VARIABLES call, sub, srv, handler, proc, dm

vars == <<call, sub, srv, handler, proc, dm>>

(***************************************************************************)
(* Bounds of the model.                                                    *)
(***************************************************************************)
\* longest prompt list / LoRA list a caller passes
MaxList == 2
\* most Answers a server sends on one stream, or in one poll response
MaxAnswers == 2
\* most AsyncResult polls of one submission
MaxPolls == 3
\* most artifacts in one Answer handed to the demultiplexer
MaxArts == 2
\* most Answers handed to the demultiplexer
MaxDemux == 3
\* most weights written in one --lora argument
MaxWeights == 3

(***************************************************************************)
(* Python values.                                                          *)
(***************************************************************************)
None == <<>>

Some(v) == <<v>>

PyNone == [t |-> "None"]

PyStr(s) == [t |-> "str", s |-> s]

PyInt(n) == [t |-> "int", n |-> n]

PyList(xs) == [t |-> "list", xs |-> xs]

\* a generation.Prompt object handed in by the caller
PyPrompt(p) == [t |-> "Prompt", p |-> p]

\* an object of some other type (truthy)
PyOther == [t |-> "object"]

\* Python truthiness of an optional number: `if x:`
TruthyNum(x) == x # None /\ x[1] # 0

\* Python truthiness of an optional string
TruthyStr(x) == x # None /\ x[1] # ""

\* Python truthiness of a tagged value
TruthyPy(x) ==
    CASE x.t = "None" -> FALSE
      [] x.t = "str" -> x.s # ""
      [] x.t = "int" -> x.n # 0
      [] x.t = "list" -> x.xs # <<>>
      [] OTHER -> TRUE

EmptyDict == [k \in {} |-> None]

\* d[k] = v on a dict
DictSet(d, k, v) == [x \in (DOMAIN d) \cup {k} |-> IF x = k THEN v ELSE d[x]]

\* d[k] = v when cond, else d unchanged
DictSetIf(cond, d, k, v) == IF cond THEN DictSet(d, k, v) ELSE d

Has(d, k) == k \in DOMAIN d

(***************************************************************************)
(* Prompt constructors (lines 128-198).                                    *)
(***************************************************************************)
\* generation.Prompt(text=s)
TextPrompt(s) == [kind |-> "text", text |-> s, weight |-> None]

\* generation.Prompt(text=s, parameters=PromptParameters(weight=-1))
NegativeTextPrompt(s) == [kind |-> "text", text |-> s, weight |-> Some(-1)]

\* the artifact type image_to_prompt / ref_to_prompt pick
ArtifactTypeOf(mask, depth) ==
    IF depth THEN "ARTIFACT_DEPTH"
    ELSE IF mask THEN "ARTIFACT_MASK"
    ELSE "ARTIFACT_IMAGE"

\* image_to_prompt(im, init, mask, depth), with the uuid4 it mints
image_to_prompt(im, init, mask, depth, artifact_uuid) ==
    [kind |-> "artifact",
     type |-> ArtifactTypeOf(mask, depth),
     uuid |-> Some(artifact_uuid),
     binary |-> Some(im),
     ref |-> None,
     adjustments |-> <<>>,
     init |-> init]

\* ref_to_prompt(ref_uuid, mask, depth), adjustments appended by the caller
ref_to_prompt(ref_uuid, mask, depth, adjustments) ==
    [kind |-> "artifact",
     type |-> ArtifactTypeOf(mask, depth),
     uuid |-> None,
     binary |-> None,
     ref |-> Some([uuid |-> ref_uuid, stage |-> "ARTIFACT_AFTER_ADJUSTMENTS"]),
     adjustments |-> adjustments,
     init |-> FALSE]

\* LoraWeights with one entry per weight, however many there are
LoraWeightsAll(weights) ==
    [i \in 1..Len(weights) |->
        [model_name |-> IF i = 1 THEN "unet" ELSE "text_encoder",
         weight |-> weights[i]]]

\* the LoraWeight entries lora_to_prompt appends: weights.pop(0) twice
LoraWeights(weights) ==
    (IF Len(weights) >= 1
        THEN <<[model_name |-> "unet", weight |-> weights[1]]>> ELSE <<>>)
    \o
    (IF Len(weights) >= 2
        THEN <<[model_name |-> "text_encoder", weight |-> weights[2]]>> ELSE <<>>)

\* lora_to_prompt(path, weights)
lora_to_prompt(path, weights) ==
    [kind |-> "artifact",
     type |-> "ARTIFACT_LORA",
     lora |-> [lora |-> path, weights |-> LoraWeights(weights)]]

(***************************************************************************)
(* StabilityInference.generate (lines 323-566), block by block.            *)
(***************************************************************************)
\* the keyword defaults of generate's signature; prompt has no default;
\* the schedule values are in hundredths (1.0 and 0.01)
DefaultArgs ==
    [prompt |-> PyStr("a"),
     negative_prompt |-> None,
     init_image |-> None,
     mask_image |-> None,
     mask_from_image_alpha |-> FALSE,
     depth_image |-> None,
     depth_from_image |-> FALSE,
     height |-> 512,
     width |-> 512,
     start_schedule |-> 100,
     end_schedule |-> 1,
     cfg_scale |-> 7,
     eta |-> Some(0),
     churn |-> None,
     churn_tmin |-> None,
     churn_tmax |-> None,
     sigma_min |-> None,
     sigma_max |-> None,
     karras_rho |-> None,
     noise_type |-> None,
     sampler |-> "SAMPLER_K_LMS",
     steps |-> 50,
     seed |-> PyInt(0),
     samples |-> 1,
     guidance_preset |-> "GUIDANCE_PRESET_NONE",
     guidance_cuts |-> 0,
     guidance_strength |-> None,
     guidance_prompt |-> PyNone,
     guidance_models |-> None,
     hires_fix |-> None,
     hires_oos_fraction |-> None,
     tiling |-> FALSE,
     lora |-> None,
     as_async |-> FALSE]

\* an exception leaving generate, with the prompts list as built so far
Raise(exc, line, prompts) ==
    [status |-> "raised", exc |-> exc, line |-> line, prompts |-> prompts]

\* lines 386-392: the two precondition checks; None when both pass
CheckPreconditions(a) ==
    IF a.prompt = PyNone /\ a.init_image = None
        THEN Some(Raise("ValueError", 387, <<>>))
    ELSE IF a.mask_image # None /\ a.init_image = None
        THEN Some(Raise("ValueError", 390, <<>>))
    ELSE None

\* lines 394-399: seed normalisation; rnd is random.randrange's draw
ResolveSeed(seed, rnd) ==
    IF ~TruthyPy(seed) THEN <<rnd>>
    ELSE IF seed.t = "int" THEN <<seed.n>>
    ELSE seed.xs

\* line 402: isinstance(x, str) or isinstance(x, generation.Prompt)
IsStrOrPrompt(x) == x.t \in {"str", "Prompt"}

\* lines 405-409: one element of the prompt list
ToPrompt(p) == IF p.t = "str" THEN TextPrompt(p.s) ELSE p.p

\* lines 401-409: the text prompts, or the TypeError that stops the loop
NormalizePrompts(prompt) ==
    IF IsStrOrPrompt(prompt)
        THEN [err |-> None, prompts |-> <<ToPrompt(prompt)>>]
    ELSE IF prompt.t # "list"
        \* `for p in prompt` on a value that is not iterable
        THEN [err |-> Some(Raise("TypeError", 404, <<>>)), prompts |-> <<>>]
    ELSE LET items == prompt.xs
             bad == {i \in 1..Len(items) : ~IsStrOrPrompt(items[i])}
             stop == IF bad = {} THEN Len(items) + 1
                     ELSE CHOOSE i \in bad : \A j \in bad : i <= j
             built == [i \in 1..(stop - 1) |-> ToPrompt(items[i])]
         IN [err |-> IF bad = {} THEN None
                     ELSE Some(Raise("TypeError", 408, built)),
             prompts |-> built]

\* lines 411-417: the negative prompt
NegativePrompts(negative_prompt) ==
    IF TruthyStr(negative_prompt)
        THEN <<NegativeTextPrompt(negative_prompt[1])>>
    ELSE <<>>

\* lines 426-434: the churn settings, when churn is truthy
ChurnParameters(a) ==
    DictSetIf(TruthyNum(a.churn_tmax),
        DictSetIf(TruthyNum(a.churn_tmin),
            [churn |-> a.churn[1]],
            "churn_tmin", a.churn_tmin[1]),
        "churn_tmax", a.churn_tmax[1])

\* lines 436-443: the sigma settings, a dict that starts empty
SigmaParameters(a) ==
    DictSetIf(TruthyNum(a.karras_rho),
        DictSetIf(TruthyNum(a.sigma_max),
            DictSetIf(TruthyNum(a.sigma_min),
                EmptyDict,
                "sigma_min", a.sigma_min[1]),
            "sigma_max", a.sigma_max[1]),
        "karras_rho", a.karras_rho[1])

\* SamplerParameters testing eta against None instead of its truth value
SamplerParametersEtaNotNone(a) ==
    DictSet(
        DictSetIf(TruthyNum(a.churn),
            DictSetIf(TruthyNum(a.noise_type),
                DictSetIf(a.eta # None,
                    [cfg_scale |-> a.cfg_scale],
                    "eta", a.eta[1]),
                "noise_type", a.noise_type[1]),
            "churn", ChurnParameters(a)),
        "sigma", SigmaParameters(a))

\* SamplerParameters that leaves an empty sigma block out
SamplerParametersSigmaIfAny(a) ==
    DictSetIf(DOMAIN SigmaParameters(a) # {},
        DictSetIf(TruthyNum(a.churn),
            DictSetIf(TruthyNum(a.noise_type),
                DictSetIf(TruthyNum(a.eta),
                    [cfg_scale |-> a.cfg_scale],
                    "eta", a.eta[1]),
                "noise_type", a.noise_type[1]),
            "churn", ChurnParameters(a)),
        "sigma", SigmaParameters(a))

\* lines 419-445: the sampler block
SamplerParameters(a) ==
    DictSet(
        DictSetIf(TruthyNum(a.churn),
            DictSetIf(TruthyNum(a.noise_type),
                DictSetIf(TruthyNum(a.eta),
                    [cfg_scale |-> a.cfg_scale],
                    "eta", a.eta[1]),
                "noise_type", a.noise_type[1]),
            "churn", ChurnParameters(a)),
        "sigma", SigmaParameters(a))

\* WithSchedule without the init-image test
WithScheduleAlways(a, step) ==
    DictSet(step, "schedule",
            [start |-> a.start_schedule, end |-> a.end_schedule])

\* lines 452-456: the schedule is set only with an init image
WithSchedule(a, step) ==
    DictSetIf(a.init_image # None, step, "schedule",
              [start |-> a.start_schedule, end |-> a.end_schedule])

\* lines 447-456: step_parameters before guidance
StepParameters(a) ==
    WithSchedule(a, [scaled_step |-> 0, sampler |-> SamplerParameters(a)])

\* lines 465-479: the two adjustments of a mask taken from the alpha channel
AlphaMaskAdjustments ==
    << [kind |-> "channels", r |-> "CHANNEL_A", g |-> "CHANNEL_A",
        b |-> "CHANNEL_A", a |-> "CHANNEL_DISCARD"],
       [kind |-> "invert"] >>

\* MaskPrompts whose alpha mask refers to a uuid of its own, with the two
\* adjustments swapped
MaskPromptsOwnUuid(a, init_uuid, mask_uuid) ==
    IF a.mask_image # None
        THEN <<image_to_prompt(a.mask_image[1], FALSE, TRUE, FALSE, mask_uuid)>>
    ELSE IF a.mask_from_image_alpha
        THEN <<ref_to_prompt(mask_uuid, TRUE, FALSE,
                             <<AlphaMaskAdjustments[2], AlphaMaskAdjustments[1]>>)>>
    ELSE <<>>

\* lines 460-481: the mask prompt
MaskPrompts(a, init_uuid, mask_uuid) ==
    IF a.mask_image # None
        THEN <<image_to_prompt(a.mask_image[1], FALSE, TRUE, FALSE, mask_uuid)>>
    ELSE IF a.mask_from_image_alpha
        THEN <<ref_to_prompt(init_uuid, TRUE, FALSE, AlphaMaskAdjustments)>>
    ELSE <<>>

\* lines 483-493: the depth prompts
DepthPrompts(a, init_uuid, depth_uuid) ==
    (IF a.depth_image # None
        THEN <<image_to_prompt(a.depth_image[1], FALSE, FALSE, TRUE, depth_uuid)>>
        ELSE <<>>)
    \o
    (IF a.depth_from_image
        THEN <<ref_to_prompt(init_uuid, FALSE, TRUE, <<[kind |-> "depth"]>>)>>
        ELSE <<>>)

\* ImagePrompts with the depth block moved above the mask block
ImagePromptsDepthFirst(a) ==
    IF a.init_image = None THEN <<>>
    ELSE <<image_to_prompt(a.init_image[1], TRUE, FALSE, FALSE, 1)>>
         \o DepthPrompts(a, 1, 2)
         \o MaskPrompts(a, 1, IF a.depth_image # None THEN 3 ELSE 2)

\* lines 452-493: the prompts added for an init image; uuid4 values are
\* distinct, here numbered in the order they are minted
ImagePrompts(a) ==
    IF a.init_image = None THEN <<>>
    ELSE LET init_uuid == 1
             mask_uuid == 2
             depth_uuid == IF a.mask_image # None THEN 3 ELSE 2
         IN <<image_to_prompt(a.init_image[1], TRUE, FALSE, FALSE, init_uuid)>>
            \o MaskPrompts(a, init_uuid, mask_uuid)
            \o DepthPrompts(a, init_uuid, depth_uuid)

\* lines 495-497: one prompt per LoRA entry
LoraPrompts(lora) ==
    IF lora = None \/ lora[1] = <<>> THEN <<>>
    ELSE [i \in 1..Len(lora[1]) |->
            lora_to_prompt(lora[1][i].path, lora[1][i].weights)]

\* lines 499-503: the guidance prompt's type check
GuidancePromptError(gp) == TruthyPy(gp) /\ ~IsStrOrPrompt(gp)

\* lines 499-501: a guidance string becomes a Prompt
NormalizeGuidancePrompt(gp) ==
    IF TruthyPy(gp) /\ gp.t = "str" THEN PyPrompt(TextPrompt(gp.s)) ELSE gp

\* lines 508-511: whether a guidance block is built
WantsGuidance(a) ==
    a.guidance_preset # "GUIDANCE_PRESET_NONE" \/ a.guidance_strength # None

\* lines 528-533: the one guidance instance; a None keyword sets no field
GuidanceInstance(a, gp) ==
    DictSetIf(gp.t # "None",
        DictSetIf(a.guidance_cuts # 0,
            DictSetIf(a.guidance_models # None /\ a.guidance_models[1] # <<>>,
                DictSetIf(a.guidance_strength # None,
                    EmptyDict,
                    "guidance_strength", a.guidance_strength[1]),
                "models", [i \in 1..Len(a.guidance_models[1]) |->
                              [alias |-> a.guidance_models[1][i]]]),
            "cutouts", [count |-> a.guidance_cuts]),
        "prompt", gp)

\* lines 508-535: step_parameters with the guidance block
WithGuidance(a, step, gp) ==
    DictSetIf(WantsGuidance(a), step, "guidance",
              [guidance_preset |-> a.guidance_preset,
               instances |-> <<GuidanceInstance(a, gp)>>])

\* lines 537-547: the hi-res-fix block, None when neither input is given
HiresParameters(a) ==
    LET hires_fix == IF a.hires_fix = None /\ a.hires_oos_fraction # None
                        THEN Some(TRUE) ELSE a.hires_fix
    IN IF hires_fix = None THEN None
       ELSE Some(DictSetIf(a.hires_oos_fraction # None,
                           [enable |-> hires_fix[1]],
                           "oos_fraction", a.hires_oos_fraction[1]))

\* lines 549-559: image_parameters; hires=None sets no field
ImageParameters(a, seed, step) ==
    DictSetIf(HiresParameters(a) # None,
        [transform |-> a.sampler, height |-> a.height, width |-> a.width,
         seed |-> seed, steps |-> a.steps, samples |-> a.samples,
         parameters |-> <<step>>, tiling |-> a.tiling],
        "hires", HiresParameters(a)[1])

\* lines 386-566: generate(a), rnd being the random seed drawn; the result
\* is the exception raised or the generator returned (not yet started)
generate(a, rnd) ==
    IF CheckPreconditions(a) # None THEN CheckPreconditions(a)[1]
    ELSE LET seed == ResolveSeed(a.seed, rnd)
             text == NormalizePrompts(a.prompt)
         IN IF text.err # None THEN text.err[1]
            ELSE LET prompts == text.prompts
                                \o NegativePrompts(a.negative_prompt)
                                \o ImagePrompts(a)
                                \o LoraPrompts(a.lora)
                 IN IF GuidancePromptError(a.guidance_prompt)
                     THEN Raise("ValueError", 503, prompts)
                    ELSE [status |-> "ok",
                          as_async |-> a.as_async,
                          prompts |-> prompts,
                          image_parameters |->
                              ImageParameters(a, seed,
                                  WithGuidance(a, StepParameters(a),
                                      NormalizeGuidancePrompt(a.guidance_prompt)))]

(***************************************************************************)
(* The process: up to two generate() calls, the generators they return,    *)
(* the server behind each submission, and the SIGINT disposition.          *)
(***************************************************************************)
\* the generate() calls of one process, named in the order they are made
Subs == {"g1", "g2"}

\* the stop value of random.randrange(0, 4294967295) (line 395), 2^32 - 1,
\* scaled to 2^3 - 1: TLC's integers are 32 bits wide
SeedStop == 7

\* values random.randrange(0, SeedStop) can return: stop is excluded
RandSeeds == 0..(SeedStop - 1)

\* the draws generate(a) makes: random is called only for a falsy seed
SeedDraws(a) == IF TruthyPy(a.seed) THEN {0} ELSE RandSeeds

\* the calls made before call g
Earlier(g) == IF g = "g2" THEN {"g1"} ELSE {}

NoCall == [status |-> "uncalled"]

\* the errors a failing RPC raises (grpc.RpcError status codes)
RpcErrors == {"UNAVAILABLE", "INTERNAL"}

\* a generator object: pc is where its frame stands, pulls counts next(),
\* raised is the exception that left the frame, regAt the rank of its
\* signal.signal call among those the process has made (0: none yet)
NoSub ==
    [pc |-> "none", pulls |-> 0, yielded |-> <<>>, recv |-> 0,
     cur |-> <<>>, complete |-> FALSE, pos |-> 0, polls |-> 0,
     raised |-> <<>>, regAt |-> 0]

\* the server's side of one submission, the RPCs it has received, and the
\* error the transport raised for one of them
NoSrv ==
    [stream |-> <<>>, closed |-> FALSE, cancelled |-> FALSE, sent |-> 0,
     complete |-> FALSE, error |-> <<>>,
     rpcs |-> [Generate |-> 0, AsyncGenerate |-> 0, AsyncResult |-> 0,
               AsyncCancel |-> 0]]

NoDemux ==
    [pc |-> "idle", answers |-> <<>>, write |-> FALSE, i |-> 1, j |-> 0,
     idx |-> 0, out |-> <<>>, files |-> <<>>]

\* the frame is executing (the one thread is inside this generator)
Executing(g) == sub[g].pc \in {"sent", "wait", "poll", "iter", "sleep"}

Busy == \E g \in Subs : Executing(g)

IsAsync(g) == call[g].status = "called" /\ call[g].result.status = "ok"
              /\ call[g].result.as_async

\* number of RPCs of any kind issued for submission g
RpcCount(g) ==
    srv[g].rpcs.Generate + srv[g].rpcs.AsyncGenerate
    + srv[g].rpcs.AsyncResult + srv[g].rpcs.AsyncCancel

\* Generate with the checks deferred: a generator is returned whatever the
\* arguments, so the body runs and submits before anything is raised
GenerateDeferred(g, a, rnd) ==
    /\ proc = "running"
    /\ ~Busy
    /\ call[g] = NoCall
    /\ \A h \in Earlier(g) : call[h] # NoCall
    /\ call' = [call EXCEPT ![g] =
                    [status |-> "called", args |-> a, result |-> generate(a, rnd)]]
    /\ sub' = [sub EXCEPT ![g].pc = "created"]
    /\ UNCHANGED <<srv, handler, proc, dm>>

\* lines 323-566: the call generate(a); it raises, or returns a generator
\* whose body has not started
Generate(g, a, rnd) ==
    /\ proc = "running"
    /\ ~Busy
    /\ call[g] = NoCall
    /\ \A h \in Earlier(g) : call[h] # NoCall
    /\ LET r == generate(a, rnd) IN
        /\ call' = [call EXCEPT ![g] =
                        [status |-> "called", args |-> a, result |-> r]]
        /\ sub' = [sub EXCEPT ![g].pc =
                        IF r.status = "ok" THEN "created" ELSE "raised"]
    /\ UNCHANGED <<srv, handler, proc, dm>>

\* lines 576-592 / 629-645: the first next() runs the body up to the submit
\* RPC; the stream or handle exists, the handler is not yet installed
EmitStart(g) ==
    /\ proc = "running"
    /\ ~Busy
    /\ sub[g].pc = "created"
    /\ sub' = [sub EXCEPT ![g].pc = "sent", ![g].pulls = @ + 1]
    /\ srv' = IF IsAsync(g)
                THEN [srv EXCEPT ![g].rpcs.AsyncGenerate = @ + 1]
                ELSE [srv EXCEPT ![g].rpcs.Generate = @ + 1]
    /\ UNCHANGED <<call, handler, proc, dm>>

\* line 645: the AsyncGenerate call raises; nothing in emit_async_request
\* catches it, so it leaves the generator, which is finished.  (The
\* synchronous Generate call returns its stream at once: a failed
\* submission surfaces at the first stream read, see StreamFail.)
SubmitFail(g, e) ==
    /\ proc = "running"
    /\ ~Busy
    /\ sub[g].pc = "created"
    /\ IsAsync(g)
    /\ sub' = [sub EXCEPT ![g].pc = "failed", ![g].pulls = @ + 1,
                          ![g].raised = Some(e)]
    /\ srv' = [srv EXCEPT ![g].rpcs.AsyncGenerate = @ + 1,
                          ![g].error = Some(e)]
    /\ UNCHANGED <<call, handler, proc, dm>>

\* the number of signal.signal calls the process has made
Registrations == Cardinality({h \in Subs : sub[h].regAt > 0})

\* Register that leaves an installed handler in place
RegisterKeepsFirst(g) ==
    /\ proc = "running"
    /\ sub[g].pc = "sent"
    /\ handler' = IF handler \in Subs THEN handler ELSE g
    /\ sub' = [sub EXCEPT ![g].pc = IF IsAsync(g) THEN "poll" ELSE "wait",
                          ![g].regAt = Registrations + 1]
    /\ UNCHANGED <<call, srv, proc, dm>>

\* lines 594-599 / 649-654: signal.signal(SIGINT, cancel_request) replaces
\* whatever handler was installed
Register(g) ==
    /\ proc = "running"
    /\ sub[g].pc = "sent"
    /\ handler' = g
    /\ sub' = [sub EXCEPT ![g].pc = IF IsAsync(g) THEN "poll" ELSE "wait",
                          ![g].regAt = Registrations + 1]
    /\ UNCHANGED <<call, srv, proc, dm>>

\* SyncRecv that swallows keep-alive Answers instead of yielding them
SyncRecvSkipsKeepalive(g) ==
    /\ proc = "running"
    /\ sub[g].pc = "wait"
    /\ sub[g].recv < Len(srv[g].stream)
    /\ sub' = IF srv[g].stream[sub[g].recv + 1].arts = 0
                THEN [sub EXCEPT ![g].recv = @ + 1]
                ELSE [sub EXCEPT ![g].pc = "yield",
                                 ![g].recv = @ + 1,
                                 ![g].yielded =
                                     Append(@, srv[g].stream[sub[g].recv + 1])]
    /\ UNCHANGED <<call, srv, handler, proc, dm>>

\* lines 601-618: the stream delivers its next Answer, which is yielded
SyncRecv(g) ==
    /\ proc = "running"
    /\ sub[g].pc = "wait"
    /\ sub[g].recv < Len(srv[g].stream)
    /\ sub' = [sub EXCEPT ![g].pc = "yield",
                          ![g].recv = @ + 1,
                          ![g].yielded =
                              Append(@, srv[g].stream[sub[g].recv + 1])]
    /\ UNCHANGED <<call, srv, handler, proc, dm>>

\* line 601: reading the stream raises once the Answers sent before the
\* failure are delivered; the for loop has no handler, the error leaves the
\* generator
StreamFail(g, e) ==
    /\ proc = "running"
    /\ sub[g].pc = "wait"
    /\ sub[g].recv = Len(srv[g].stream)
    /\ ~srv[g].closed
    /\ sub' = [sub EXCEPT ![g].pc = "failed", ![g].raised = Some(e)]
    /\ srv' = [srv EXCEPT ![g].closed = TRUE, ![g].error = Some(e)]
    /\ UNCHANGED <<call, handler, proc, dm>>

\* line 601: the stream is exhausted and closed, the generator returns
SyncEnd(g) ==
    /\ proc = "running"
    /\ sub[g].pc = "wait"
    /\ sub[g].recv = Len(srv[g].stream)
    /\ srv[g].closed
    /\ sub' = [sub EXCEPT ![g].pc = "stop"]
    /\ UNCHANGED <<call, srv, handler, proc, dm>>

\* lines 618-619 / 659: next() on a generator suspended at its yield
Resume(g) ==
    /\ proc = "running"
    /\ ~Busy
    /\ sub[g].pc = "yield"
    /\ sub' = [sub EXCEPT ![g].pc = IF IsAsync(g) THEN "iter" ELSE "wait",
                          ![g].pulls = @ + 1]
    /\ UNCHANGED <<call, srv, handler, proc, dm>>

\* the Answers with ids first..last, one artifact each
NewAnswers(first, last) ==
    [k \in 1..(last - first + 1) |-> [answer_id |-> first + k - 1, arts |-> 1]]

\* line 657: one AsyncResult poll; the server answers with n new Answers
\* and its complete flag, which stays set once set
Poll(g, n, complete) ==
    /\ proc = "running"
    /\ sub[g].pc = "poll"
    /\ sub[g].polls < MaxPolls
    /\ srv[g].complete => (complete /\ n = 0)
    /\ sub' = [sub EXCEPT ![g].pc = "iter",
                          ![g].polls = @ + 1,
                          ![g].cur = NewAnswers(srv[g].sent + 1, srv[g].sent + n),
                          ![g].complete = complete,
                          ![g].pos = 0]
    /\ srv' = [srv EXCEPT ![g].rpcs.AsyncResult = @ + 1,
                          ![g].sent = @ + n,
                          ![g].complete = complete]
    /\ UNCHANGED <<call, handler, proc, dm>>

\* PollFail inside a retry loop: the error is swallowed and the loop polls
\* again
PollFailRetries(g, e) ==
    /\ proc = "running"
    /\ sub[g].pc = "poll"
    /\ sub[g].polls < MaxPolls
    /\ sub' = [sub EXCEPT ![g].polls = @ + 1]
    /\ srv' = [srv EXCEPT ![g].rpcs.AsyncResult = @ + 1,
                          ![g].error = Some(e)]
    /\ UNCHANGED <<call, handler, proc, dm>>

\* line 657: the AsyncResult call raises; the while loop has no handler,
\* the error leaves the generator
PollFail(g, e) ==
    /\ proc = "running"
    /\ sub[g].pc = "poll"
    /\ sub[g].polls < MaxPolls
    /\ sub' = [sub EXCEPT ![g].pc = "failed", ![g].polls = @ + 1,
                          ![g].raised = Some(e)]
    /\ srv' = [srv EXCEPT ![g].rpcs.AsyncResult = @ + 1,
                          ![g].error = Some(e)]
    /\ UNCHANGED <<call, handler, proc, dm>>

\* lines 658-664: yield the response's next Answer; after the last one,
\* print "Done" if the response was complete, and sleep in either case
AsyncIter(g) ==
    /\ proc = "running"
    /\ sub[g].pc = "iter"
    /\ sub' = IF sub[g].pos < Len(sub[g].cur)
                THEN [sub EXCEPT ![g].pc = "yield",
                                 ![g].pos = @ + 1,
                                 ![g].yielded =
                                     Append(@, sub[g].cur[sub[g].pos + 1])]
                ELSE [sub EXCEPT ![g].pc = "sleep"]
    /\ UNCHANGED <<call, srv, handler, proc, dm>>

\* lines 664, 656: time.sleep(5) returns and the loop polls again
Wake(g) ==
    /\ proc = "running"
    /\ sub[g].pc = "sleep"
    /\ sub' = [sub EXCEPT ![g].pc = "poll"]
    /\ UNCHANGED <<call, srv, handler, proc, dm>>

\* the server writes one more Answer (arts = 0: a keep-alive) to the stream
ServerSend(g, arts) ==
    /\ proc = "running"
    /\ srv[g].rpcs.Generate = 1
    /\ ~srv[g].closed
    /\ Len(srv[g].stream) < MaxAnswers
    /\ srv' = [srv EXCEPT ![g].stream =
                  Append(@, [answer_id |-> Len(srv[g].stream) + 1,
                             arts |-> arts])]
    /\ UNCHANGED <<call, sub, handler, proc, dm>>

\* the server closes the stream
ServerClose(g) ==
    /\ proc = "running"
    /\ srv[g].rpcs.Generate = 1
    /\ ~srv[g].closed
    /\ srv' = [srv EXCEPT ![g].closed = TRUE]
    /\ UNCHANGED <<call, sub, handler, proc, dm>>

\* SIGINT under Python's default handler: KeyboardInterrupt unwinds the
\* main thread; nothing is cancelled
InterruptDefault ==
    /\ proc = "running"
    /\ handler = "default_int_handler"
    /\ proc' = "KeyboardInterrupt"
    /\ UNCHANGED <<call, sub, srv, handler, dm>>

\* lines 594-597 / 649-652: SIGINT under an installed cancel_request: cancel
\* the stream or handle its closure holds, then sys.exit(0)
InterruptCancel ==
    /\ proc = "running"
    /\ handler \in Subs
    /\ srv' = IF IsAsync(handler)
                THEN [srv EXCEPT ![handler].rpcs.AsyncCancel = @ + 1,
                                 ![handler].cancelled = TRUE]
                ELSE [srv EXCEPT ![handler].cancelled = TRUE]
    /\ proc' = "exit0"
    /\ UNCHANGED <<call, sub, handler, dm>>

(***************************************************************************)
(* process_artifacts_from_answers (lines 201-246).                         *)
(***************************************************************************)
\* the artifact types a server puts at positions 1, 2, 3, ... of an Answer
ArtifactAt(k) ==
    [type |-> CASE k % 4 = 1 -> "ARTIFACT_IMAGE"
                [] k % 4 = 2 -> "ARTIFACT_CLASSIFICATIONS"
                [] k % 4 = 3 -> "ARTIFACT_TEXT"
                [] OTHER -> "ARTIFACT_LORA",
     mime |-> "image/png",
     n |-> k]

\* lines 223-234: the extension chosen by artifact type
ExtOf(artifact) ==
    CASE artifact.type = "ARTIFACT_IMAGE" -> ".png"
      [] artifact.type = "ARTIFACT_CLASSIFICATIONS" -> ".pb.json"
      [] artifact.type = "ARTIFACT_TEXT" -> ".pb.json"
      [] OTHER -> ".pb"

\* lines 222, 235: f"{prefix}-{resp.request_id}-{resp.answer_id}-{idx}{ext}"
OutPath(prefix, resp, idx, ext) ==
    [prefix |-> prefix, request_id |-> resp.request_id,
     answer_id |-> resp.answer_id, idx |-> idx, ext |-> ext]

\* DemuxIdxOnPull counting per Answer: back to 0 after an Answer's last
\* artifact
DemuxIdxPerAnswer(d) ==
    IF d.pc # "yield" THEN d.idx
    ELSE IF d.j = Len(d.answers[d.i].artifacts) THEN 0
    ELSE d.idx + 1

\* line 246: idx += 1 runs when the generator is resumed after a yield
DemuxIdxOnPull(d) == IF d.pc = "yield" THEN d.idx + 1 ELSE d.idx

\* lines 220-221: the Answers from the current one on that still hold an
\* artifact to visit
DemuxCandidates(d) ==
    {i2 \in d.i..Len(d.answers) :
        IF i2 = d.i THEN d.j < Len(d.answers[i2].artifacts)
        ELSE Len(d.answers[i2].artifacts) > 0}

\* lines 219-246: one next() on the demultiplexer: it runs to its next
\* yield, writing the file on the way when write is set, or returns
DemuxPull ==
    /\ proc = "running"
    /\ dm.pc \in {"created", "yield"}
    /\ LET idx == DemuxIdxOnPull(dm)
           cand == DemuxCandidates(dm)
       IN IF cand = {}
            THEN dm' = [dm EXCEPT !.pc = "stop", !.idx = idx,
                                  !.i = Len(dm.answers) + 1, !.j = 0]
            ELSE LET i2 == CHOOSE x \in cand : \A y \in cand : x <= y
                     j2 == IF i2 = dm.i THEN dm.j + 1 ELSE 1
                     resp == dm.answers[i2]
                     artifact == resp.artifacts[j2]
                     out_p == OutPath("generation_", resp, idx, ExtOf(artifact))
                 IN dm' = [dm EXCEPT !.pc = "yield", !.idx = idx,
                                     !.i = i2, !.j = j2,
                                     !.out = Append(@, <<out_p, artifact>>),
                                     !.files = IF dm.write
                                                 THEN Append(@, out_p) ELSE @]
    /\ UNCHANGED <<call, sub, srv, handler, proc>>

(***************************************************************************)
(* Inputs.                                                                 *)
(***************************************************************************)
OptNum == {None, Some(0), Some(1)}

OptPos == {None, Some(1)}

\* a plain text-to-image call in either mode, with a fixed seed
ValidArgs ==
    {[DefaultArgs EXCEPT !.as_async = b, !.seed = PyInt(5)] : b \in BOOLEAN}

\* one call per way generate can raise
InvalidArgs ==
    {[DefaultArgs EXCEPT !.prompt = PyNone],
     [DefaultArgs EXCEPT !.mask_image = Some("mask.png")],
     [DefaultArgs EXCEPT !.prompt = PyNone, !.mask_image = Some("mask.png")],
     [DefaultArgs EXCEPT !.prompt = PyList(<<PyStr("a"), PyOther>>)],
     [DefaultArgs EXCEPT !.guidance_prompt = PyOther,
                         !.init_image = Some("init.png")],
     [DefaultArgs EXCEPT !.prompt = PyNone, !.init_image = Some("init.png")]}

\* the inputs of the process model
PipeArgs == ValidArgs \cup {[a EXCEPT !.seed = PyInt(5)] : a \in InvalidArgs}

\* a structured prompt a caller passes in place of a string
CallerPrompt == [kind |-> "text", text |-> "p", weight |-> Some(2)]

\* elements a caller may put in a prompt list
PromptElems == {PyStr("a"), PyPrompt(CallerPrompt), PyOther}

\* prompt arguments: None, a string (also the empty one), a Prompt, a list
PromptInputs ==
    {PyNone, PyStr(""), PyStr("a"), PyPrompt(CallerPrompt)}
    \cup {PyList(xs) : xs \in UNION {[1..n -> PromptElems] : n \in 0..MaxList}}

\* LoRA entries as the command line builds them (lines 893-898)
LoraEntries ==
    {[path |-> "l1.safetensors", weights |-> <<>>],
     [path |-> "l2.safetensors", weights |-> <<8, 2>>]}

LoraInputs ==
    {None} \cup {Some(xs) : xs \in UNION {[1..n -> LoraEntries] : n \in 0..MaxList}}

\* inputs that decide the prompt sequence
PromptArgs ==
    {[DefaultArgs EXCEPT !.prompt = p, !.negative_prompt = np,
                         !.init_image = i, !.mask_image = m,
                         !.mask_from_image_alpha = mfa,
                         !.depth_image = d, !.depth_from_image = dfi,
                         !.lora = l, !.seed = PyInt(5)] :
        p \in PromptInputs, np \in {None, Some(""), Some("neg")},
        i \in {None, Some("init.png")}, m \in {None, Some("mask.png")},
        mfa \in BOOLEAN, d \in {None, Some("depth.png")}, dfi \in BOOLEAN,
        l \in LoraInputs}

\* inputs that decide the one StepParameter's sampler and schedule
StepArgs ==
    {[DefaultArgs EXCEPT !.cfg_scale = c, !.eta = e, !.noise_type = nt,
                         !.churn = ch, !.churn_tmin = tmin,
                         !.sigma_min = smin, !.sigma_max = smax,
                         !.init_image = i, !.start_schedule = st,
                         !.end_schedule = en, !.seed = PyInt(5)] :
        c \in {7, 0}, e \in OptNum, nt \in OptNum, ch \in OptNum,
        tmin \in OptNum, smin \in OptNum, smax \in OptPos,
        i \in {None, Some("init.png")}, st \in {100, 50}, en \in {1, 0}}

\* inputs that decide the optional blocks
BlockArgs ==
    {[DefaultArgs EXCEPT !.churn = ch, !.churn_tmin = tmin, !.churn_tmax = tmax,
                         !.sigma_min = smin, !.sigma_max = smax,
                         !.karras_rho = rho,
                         !.guidance_preset = gp, !.guidance_strength = gs,
                         !.guidance_cuts = gc, !.guidance_models = gm,
                         !.hires_fix = hf, !.hires_oos_fraction = oos,
                         !.seed = PyInt(5)] :
        ch \in OptNum, tmin \in OptPos, tmax \in OptPos,
        smin \in OptNum, smax \in OptPos, rho \in OptPos,
        gp \in {"GUIDANCE_PRESET_NONE", "GUIDANCE_PRESET_SIMPLE"},
        gs \in OptNum, gc \in {0, 4}, gm \in {None, Some(<<"m">>)},
        hf \in {None, Some(TRUE), Some(FALSE)}, oos \in OptNum}

\* Answers handed to the demultiplexer
DemuxAnswers ==
    {[request_id |-> "r1", answer_id |-> a,
      artifacts |-> [k \in 1..n |-> ArtifactAt(k)]] :
        a \in {"a1", "a2"}, n \in 0..MaxArts}

DemuxInputs == UNION {[1..n -> DemuxAnswers] : n \in 0..MaxDemux}

(***************************************************************************)
(* Specifications.                                                         *)
(***************************************************************************)
Init ==
    /\ call = [g \in Subs |-> NoCall]
    /\ sub = [g \in Subs |-> NoSub]
    /\ srv = [g \in Subs |-> NoSrv]
    /\ handler = "default_int_handler"
    /\ proc = "running"
    /\ dm = NoDemux

\* a process making up to two generate() calls and consuming the generators
Next ==
    \/ \E g \in Subs, a \in PipeArgs : \E rnd \in SeedDraws(a) : Generate(g, a, rnd)
    \/ \E g \in Subs : EmitStart(g)
    \/ \E g \in Subs, e \in RpcErrors : SubmitFail(g, e)
    \/ \E g \in Subs : Register(g)
    \/ \E g \in Subs : SyncRecv(g)
    \/ \E g \in Subs, e \in RpcErrors : StreamFail(g, e)
    \/ \E g \in Subs : SyncEnd(g)
    \/ \E g \in Subs : Resume(g)
    \/ \E g \in Subs, n \in 0..MaxAnswers, c \in BOOLEAN : Poll(g, n, c)
    \/ \E g \in Subs, e \in RpcErrors : PollFail(g, e)
    \/ \E g \in Subs : AsyncIter(g)
    \/ \E g \in Subs : Wake(g)
    \/ \E g \in Subs, arts \in 0..1 : ServerSend(g, arts)
    \/ \E g \in Subs : ServerClose(g)
    \/ InterruptDefault
    \/ InterruptCancel

Spec == Init /\ [][Next]_vars

\* the demultiplexer run on each input
InitDemux ==
    /\ call = [g \in Subs |-> NoCall]
    /\ sub = [g \in Subs |-> NoSub]
    /\ srv = [g \in Subs |-> NoSrv]
    /\ handler = "default_int_handler"
    /\ proc = "running"
    /\ dm \in {[NoDemux EXCEPT !.pc = "created", !.answers = as, !.write = w] :
                  as \in DemuxInputs, w \in BOOLEAN}

NextDemux == DemuxPull

SpecDemux == InitDemux /\ [][NextDemux]_vars

\* one generate() call on each prompt-deciding input
NextPrompts ==
    /\ call["g1"] = NoCall
    /\ \E a \in PromptArgs : \E rnd \in SeedDraws(a) : Generate("g1", a, rnd)

SpecPrompts == Init /\ [][NextPrompts]_vars

\* one generate() call on each sampler- and schedule-deciding input
NextStep ==
    /\ call["g1"] = NoCall
    /\ \E a \in StepArgs : \E rnd \in SeedDraws(a) : Generate("g1", a, rnd)

SpecStep == Init /\ [][NextStep]_vars

\* str.split(":") on a string given as its characters
RECURSIVE SplitColon(_)
SplitColon(str) ==
    IF str = <<>> THEN << <<>> >>
    ELSE LET rest == SplitColon(Tail(str)) IN
         IF Head(str) = ":" THEN << <<>> >> \o rest
         ELSE << <<Head(str)>> \o Head(rest) >> \o Tail(rest)

\* the digits a weight is written with
Digits == {"2", "8"}

DigitVal(c) == IF c = "2" THEN 2 ELSE 8

\* float() on a string of digits
RECURSIVE FloatOf(_)
FloatOf(tok) ==
    IF Len(tok) = 1 THEN DigitVal(tok[1])
    ELSE 10 * FloatOf(SubSeq(tok, 1, Len(tok) - 1)) + DigitVal(tok[Len(tok)])

\* lines 895-897: one --lora argument becomes (path, weights)
ParseLora(str) ==
    LET parts == SplitColon(str) IN
    [path |-> Head(parts),
     weights |-> [i \in 1..(Len(parts) - 1) |-> FloatOf(parts[i + 1])]]

\* the text after the path of a --lora argument with k weights
RECURSIVE WeightTails(_)
WeightTails(k) ==
    IF k = 0 THEN {<<>>}
    ELSE {<<":", d>> \o t : d \in Digits, t \in WeightTails(k - 1)}

\* --lora arguments: a path followed by up to MaxWeights weights
LoraSpecs ==
    {<<"p">> \o t : t \in UNION {WeightTails(k) : k \in 0..MaxWeights}}

\* inputs that decide the LoRA prompts: the entries lines 893-898 parse
LoraArgs ==
    {[DefaultArgs EXCEPT !.lora = Some(xs), !.seed = PyInt(5)] :
        xs \in UNION {[1..n -> {ParseLora(str) : str \in LoraSpecs}] :
                        n \in 0..MaxList}}

\* one generate() call on each list of LoRA entries
NextLora ==
    /\ call["g1"] = NoCall
    /\ \E a \in LoraArgs : \E rnd \in SeedDraws(a) : Generate("g1", a, rnd)

SpecLora == Init /\ [][NextLora]_vars

\* inputs that decide the guidance block and its instance's prompt
GuidanceArgs ==
    {[DefaultArgs EXCEPT !.prompt = pr, !.guidance_preset = gp,
                         !.guidance_strength = gs, !.guidance_cuts = gc,
                         !.guidance_models = gm, !.guidance_prompt = gpr,
                         !.seed = PyInt(5)] :
        pr \in {PyStr("a"), PyList(<<PyStr("a"), PyPrompt(CallerPrompt)>>)},
        gp \in {"GUIDANCE_PRESET_NONE", "GUIDANCE_PRESET_SIMPLE"},
        gs \in OptNum, gc \in {0, 4}, gm \in {None, Some(<<"m">>)},
        gpr \in {PyNone, PyStr("g"), PyPrompt(CallerPrompt)}}

\* one generate() call on each guidance-deciding input
NextGuidance ==
    /\ call["g1"] = NoCall
    /\ \E a \in GuidanceArgs : \E rnd \in SeedDraws(a) : Generate("g1", a, rnd)

SpecGuidance == Init /\ [][NextGuidance]_vars

\* the seeds a caller passes: None, a scalar, or a list of scalars
SeedInputs ==
    {PyNone} \cup {PyInt(n) : n \in 0..SeedStop}
    \cup {PyList(xs) : xs \in UNION {[1..k -> {0, SeedStop}] : k \in 0..MaxList}}

\* inputs that decide the request's seed list
SeedArgs ==
    {[DefaultArgs EXCEPT !.seed = sd, !.samples = n, !.as_async = y] :
        sd \in SeedInputs, n \in {1, 2}, y \in BOOLEAN}

\* one generate() call on each seed input and each draw of random.randrange
NextSeed ==
    /\ call["g1"] = NoCall
    /\ \E a \in SeedArgs : \E rnd \in SeedDraws(a) : Generate("g1", a, rnd)

SpecSeed == Init /\ [][NextSeed]_vars

\* one generate() call on each block-deciding input
NextBlocks ==
    /\ call["g1"] = NoCall
    /\ \E a \in BlockArgs : \E rnd \in SeedDraws(a) : Generate("g1", a, rnd)

SpecBlocks == Init /\ [][NextBlocks]_vars

(***************************************************************************)
(* The claims.                                                             *)
(***************************************************************************)
\* the submit RPC of submission g has been issued
Submitted(g) == srv[g].rpcs.Generate + srv[g].rpcs.AsyncGenerate > 0

\* generate(a) returned a generator for call g
Returned(g) == call[g].status = "called" /\ call[g].result.status = "ok"

\* C1: in asynchronous mode, once a poll response signalled completion the
\* generator is yielding that response's Answers or has terminated; it
\* never sleeps or polls again.
C1_AsyncStopsOnComplete ==
    \A g \in Subs :
        (IsAsync(g) /\ sub[g].complete)
            => sub[g].pc \in {"iter", "yield", "stop", "failed"}

\* C2: in both modes, when an interrupt ends the process after the submit
\* RPC of a submission was issued and before its response sequence ended,
\* the cancel operation was invoked on that submission and the process
\* exited with status 0.
C2_InterruptAlwaysCancels ==
    \A g \in Subs :
        (proc # "running" /\ Submitted(g) /\ sub[g].pc # "stop")
            => (srv[g].cancelled /\ proc = "exit0")

\* the InvalidArgument conditions of generate, in the claim's words
C3_Invalid(a) ==
    \/ a.prompt = PyNone /\ a.init_image = None
    \/ a.mask_image # None /\ a.init_image = None
    \/ a.prompt.t = "list" /\ \E i \in 1..Len(a.prompt.xs) :
                                 a.prompt.xs[i].t \notin {"str", "Prompt"}
    \/ a.guidance_prompt.t = "object"

\* C3: every InvalidArgument condition is raised by the generate() call
\* itself: no generator is returned, no RPC of that call is ever issued, no
\* handler of that call is ever registered; a mask without an init image
\* is raised with no prompt built.
C3_InvalidRaisedBeforeSubmit ==
    \A g \in Subs :
        call[g].status = "called" =>
            /\ C3_Invalid(call[g].args) =>
                  (call[g].result.status = "raised" /\ sub[g].pc = "raised")
            /\ call[g].result.status = "raised" =>
                  /\ RpcCount(g) = 0
                  /\ handler # g
                  /\ sub[g].pulls = 0
            /\ (call[g].args.mask_image # None /\ call[g].args.init_image = None)
                  => call[g].result.prompts = <<>>

\* C3's case: a call with a prompt raised for a mask without init image,
\* while the same process submits another request and installs its handler
C3_Witness ==
    /\ call["g1"].status = "called"
    /\ call["g1"].result.status = "raised"
    /\ call["g1"].result.line = 390
    /\ call["g1"].args.prompt # PyNone
    /\ Submitted("g2")
    /\ handler = "g2"

\* C5: in streaming mode the Answers yielded are the stream's, in order,
\* keep-alives included, none skipped or repeated; each next() reads at
\* most one Answer, and the generator returns only once the server has
\* closed the stream and every Answer was yielded.
C5_SyncYieldsStreamInOrder ==
    \A g \in Subs :
        (Returned(g) /\ ~IsAsync(g)) =>
            /\ sub[g].recv <= Len(srv[g].stream)
            /\ sub[g].yielded = SubSeq(srv[g].stream, 1, sub[g].recv)
            /\ sub[g].recv <= sub[g].pulls
            /\ sub[g].pc = "yield" => sub[g].recv = sub[g].pulls
            /\ sub[g].pc = "wait" => sub[g].recv = sub[g].pulls - 1
            /\ sub[g].pc = "stop" =>
                  (srv[g].closed /\ sub[g].yielded = srv[g].stream
                   /\ sub[g].pulls = Len(srv[g].stream) + 1)

\* C5's case: a stream of a keep-alive and an Answer with an artifact was
\* consumed to its end
C5_Witness ==
    \E g \in Subs :
        /\ Returned(g) /\ ~IsAsync(g)
        /\ sub[g].pc = "stop"
        /\ Len(sub[g].yielded) >= 2
        /\ sub[g].yielded[1].arts = 0
        /\ sub[g].yielded[2].arts = 1

\* the arguments and the result of the first generate() call
Args1 == call["g1"].args

Result1 == call["g1"].result

\* the one StepParameter of the request
Step1 == Result1.image_parameters.parameters[1]

\* C4: with prompt None and an init image, generate succeeds and the
\* request's prompts hold the init-image prompt and no caller text prompt.
C4_InitImageSufficient ==
    (call["g1"].status = "called" /\ Args1.prompt = PyNone
     /\ Args1.init_image # None)
        => /\ Result1.status = "ok"
           /\ \E i \in 1..Len(Result1.prompts) :
                 /\ Result1.prompts[i].kind = "artifact"
                 /\ Result1.prompts[i].type = "ARTIFACT_IMAGE"
           /\ \A i \in 1..Len(Result1.prompts) :
                 Result1.prompts[i].kind = "text"
                     => Result1.prompts[i].weight = Some(-1)

\* the (Answer, artifact) positions of the demultiplexer's input
C6_Pairs ==
    UNION {{<<i, j>> : j \in 1..Len(dm.answers[i].artifacts)} :
              i \in 1..Len(dm.answers)}

\* how many artifacts come before position q in encounter order
C6_Before(q) ==
    Cardinality({r \in C6_Pairs : r[1] < q[1] \/ (r[1] = q[1] /\ r[2] < q[2])})

\* C6: the k-th pair yielded is the k-th artifact in encounter order, under
\* an identity with index k-1 and the request id and answer id of the
\* Answer that owns it; Answers without artifacts yield nothing; at the
\* end one pair per artifact was yielded.
C6_IndexCountsAcrossAnswers ==
    dm.pc # "idle" =>
        /\ Len(dm.out) <= Cardinality(C6_Pairs)
        /\ \A q \in C6_Pairs :
              C6_Before(q) < Len(dm.out) =>
                  LET o == dm.out[C6_Before(q) + 1] IN
                  /\ o[1].idx = C6_Before(q)
                  /\ o[1].request_id = dm.answers[q[1]].request_id
                  /\ o[1].answer_id = dm.answers[q[1]].answer_id
                  /\ o[2] = dm.answers[q[1]].artifacts[q[2]]
        /\ dm.pc = "yield" => dm.idx = Len(dm.out) - 1
        /\ dm.pc = "stop" => Len(dm.out) = Cardinality(C6_Pairs)

\* C6's case: Answers with two, no and one artifact were demultiplexed
C6_Witness ==
    /\ dm.pc = "stop"
    /\ Len(dm.answers) = 3
    /\ Len(dm.answers[1].artifacts) = 2
    /\ Len(dm.answers[2].artifacts) = 0
    /\ Len(dm.answers[3].artifacts) = 1
    /\ dm.answers[1].answer_id # dm.answers[3].answer_id
    /\ Len(dm.out) = 3
    /\ dm.out[3][1].idx = 2

\* a sub-block is supplied when one of its inputs is not None
C7_AnyGiven(fields) == \E f \in fields : Args1[f] # None

\* C7 as stated: each optional block is present iff one of its inputs was
\* supplied, and no block is sent empty.
C7_BlockIffAnyFieldGiven ==
    Returned("g1") =>
        /\ Has(Step1.sampler, "churn")
              <=> C7_AnyGiven({"churn", "churn_tmin", "churn_tmax"})
        /\ Has(Step1.sampler, "sigma")
              <=> C7_AnyGiven({"sigma_min", "sigma_max", "karras_rho"})
        /\ Has(Step1.sampler, "sigma") => DOMAIN Step1.sampler.sigma # {}
        /\ Has(Step1, "guidance")
              <=> \/ Args1.guidance_preset # "GUIDANCE_PRESET_NONE"
                  \/ Args1.guidance_strength # None
                  \/ Args1.guidance_cuts # 0
                  \/ Args1.guidance_models # None
        /\ Has(Result1.image_parameters, "hires")
              <=> C7_AnyGiven({"hires_fix", "hires_oos_fraction"})

\* C7 amended: the hi-res-fix block is present iff hires_fix or
\* hires_oos_fraction was supplied; the churn block iff a non-zero churn
\* was supplied; the guidance block iff a non-default preset or a guidance
\* strength was supplied; the sigma block always, holding exactly the
\* non-zero sigma inputs, so it is sent empty when there is none.
C7_BlockPresence ==
    Returned("g1") =>
        /\ Has(Step1.sampler, "churn") <=> TruthyNum(Args1.churn)
        /\ Has(Step1.sampler, "churn") =>
              DOMAIN Step1.sampler.churn =
                  {"churn"} \cup {f \in {"churn_tmin", "churn_tmax"} :
                                     TruthyNum(Args1[f])}
        /\ Has(Step1.sampler, "sigma")
        /\ DOMAIN Step1.sampler.sigma =
              {f \in {"sigma_min", "sigma_max", "karras_rho"} : TruthyNum(Args1[f])}
        /\ Has(Step1, "guidance")
              <=> \/ Args1.guidance_preset # "GUIDANCE_PRESET_NONE"
                  \/ Args1.guidance_strength # None
        /\ Has(Step1, "guidance") => Len(Step1.guidance.instances) = 1
        /\ Has(Result1.image_parameters, "hires")
              <=> C7_AnyGiven({"hires_fix", "hires_oos_fraction"})
        /\ Has(Result1.image_parameters, "hires") =>
              /\ Result1.image_parameters.hires.enable =
                    (IF Args1.hires_fix = None THEN TRUE ELSE Args1.hires_fix[1])
              /\ Has(Result1.image_parameters.hires, "oos_fraction")
                    <=> Args1.hires_oos_fraction # None

\* C7's case: no sigma input and an empty sigma block, churn_tmin without
\* churn and no churn block, guidance cuts alone and no guidance block, an
\* out-of-square fraction alone and a hi-res-fix block
C7_Witness ==
    /\ Returned("g1")
    /\ ~C7_AnyGiven({"sigma_min", "sigma_max", "karras_rho"})
    /\ Has(Step1.sampler, "sigma") /\ DOMAIN Step1.sampler.sigma = {}
    /\ Args1.churn = None /\ Args1.churn_tmin # None
    /\ ~Has(Step1.sampler, "churn")
    /\ Args1.guidance_cuts # 0 /\ ~Has(Step1, "guidance")
    /\ Args1.hires_fix = None /\ Args1.hires_oos_fraction = Some(0)
    /\ Has(Result1.image_parameters, "hires")

\* the sampler fields a caller supplied: those whose input is not None
C8_Supplied ==
    {"cfg_scale"}
    \cup {f \in {"eta", "noise_type"} : Args1[f] # None}
    \cup (IF C7_AnyGiven({"churn", "churn_tmin", "churn_tmax"})
            THEN {"churn"} ELSE {})
    \cup (IF C7_AnyGiven({"sigma_min", "sigma_max", "karras_rho"})
            THEN {"sigma"} ELSE {})

\* C8 as stated: the sampler block holds cfg_scale plus exactly the fields
\* supplied, a supplied 0 included, and nothing else.
C8_SamplerExactlySupplied ==
    Returned("g1") =>
        /\ DOMAIN Step1.sampler = C8_Supplied
        /\ \A f \in {"eta", "noise_type"} :
              Args1[f] # None => Step1.sampler[f] = Args1[f][1]

\* C8 amended: the sampler block holds cfg_scale, a sigma block (always,
\* possibly empty), eta and noise_type exactly when supplied with a
\* non-zero value, and a churn block exactly when a non-zero churn was
\* supplied, each with the caller's value; an input of 0 is left out like
\* an absent one.
C8_SamplerTruthyFields ==
    Returned("g1") =>
        /\ DOMAIN Step1.sampler =
              {"cfg_scale", "sigma"}
              \cup {f \in {"eta", "noise_type", "churn"} : TruthyNum(Args1[f])}
        /\ Step1.sampler.cfg_scale = Args1.cfg_scale
        /\ \A f \in {"eta", "noise_type"} :
              TruthyNum(Args1[f]) => Step1.sampler[f] = Args1[f][1]
        /\ TruthyNum(Args1.churn) =>
              Step1.sampler.churn.churn = Args1.churn[1]

\* C8's case: eta supplied as 0 and left out, noise_type supplied non-zero
\* and kept, no sigma input
C8_Witness ==
    /\ Returned("g1")
    /\ Args1.eta = Some(0) /\ ~Has(Step1.sampler, "eta")
    /\ Args1.noise_type = Some(1) /\ Step1.sampler.noise_type = 1
    /\ Args1.cfg_scale = 0 /\ Step1.sampler.cfg_scale = 0
    /\ Args1.sigma_min = None /\ Args1.sigma_max = None

\* the group of a prompt in the order the claim gives
C9_Rank(p) ==
    IF p.kind = "text" THEN (IF p.weight = Some(-1) THEN 2 ELSE 1)
    ELSE CASE p.type = "ARTIFACT_IMAGE" -> 3
           [] p.type = "ARTIFACT_MASK" -> 4
           [] p.type = "ARTIFACT_DEPTH" -> 5
           [] OTHER -> 6

\* the prompts of group n, in their order in the request
C9_Group(n) == LET InGroup(p) == C9_Rank(p) = n IN SelectSeq(Result1.prompts, InGroup)

\* a caller's prompt element as the request carries it
C9_Carried(x) ==
    IF x.t = "str" THEN [kind |-> "text", text |-> x.s, weight |-> None] ELSE x.p

\* the caller's text and structured prompts, in the caller's order
C9_CallerPrompts ==
    IF Args1.prompt.t = "list"
        THEN [i \in 1..Len(Args1.prompt.xs) |-> C9_Carried(Args1.prompt.xs[i])]
    ELSE <<C9_Carried(Args1.prompt)>>

\* C9: the request's prompts are, in this order, the caller's prompts in
\* the caller's order, the negative prompt (weight -1) if a non-empty one
\* was supplied, the init-image prompt, the mask prompts, the depth
\* prompts, and one LoRA prompt per entry in the caller's order.
C9_PromptOrder ==
    Returned("g1") =>
        /\ \A i, j \in 1..Len(Result1.prompts) :
              i < j => C9_Rank(Result1.prompts[i]) <= C9_Rank(Result1.prompts[j])
        /\ C9_Group(1) = C9_CallerPrompts
        /\ C9_Group(2) =
              (IF Args1.negative_prompt \in {None, Some("")} THEN <<>>
               ELSE <<[kind |-> "text", text |-> Args1.negative_prompt[1],
                       weight |-> Some(-1)]>>)
        /\ Len(C9_Group(3)) = (IF Args1.init_image = None THEN 0 ELSE 1)
        /\ Args1.init_image # None =>
              /\ C9_Group(3)[1].binary = Args1.init_image
              /\ C9_Group(3)[1].init
        /\ Args1.init_image = None => (C9_Group(4) = <<>> /\ C9_Group(5) = <<>>)
        /\ (Args1.init_image # None /\ Args1.mask_image # None) =>
              (C9_Group(4) # <<>> /\ C9_Group(4)[1].binary = Args1.mask_image)
        /\ (Args1.init_image # None /\ Args1.depth_image # None) =>
              (C9_Group(5) # <<>> /\ C9_Group(5)[1].binary = Args1.depth_image)
        /\ Len(C9_Group(6)) = (IF Args1.lora = None THEN 0 ELSE Len(Args1.lora[1]))
        /\ \A i \in 1..Len(C9_Group(6)) :
              C9_Group(6)[i].lora.lora = Args1.lora[1][i].path

\* C9's case: a request with two caller prompts, a negative prompt, init,
\* mask and depth images and two LoRA entries
C9_Witness ==
    /\ Returned("g1")
    /\ Args1.prompt = PyList(<<PyPrompt(CallerPrompt), PyStr("a")>>)
    /\ Args1.negative_prompt = Some("neg")
    /\ Args1.mask_image # None /\ Args1.depth_image # None
    /\ Args1.lora # None /\ Len(Args1.lora[1]) = 2
    /\ Args1.lora[1][1].path # Args1.lora[1][2].path
    /\ Len(Result1.prompts) = 8

\* C10: the request has one StepParameter, and it holds a schedule iff an
\* init image was supplied; the schedule is the caller's start and end.
C10_ScheduleIffInitImage ==
    Returned("g1") =>
        /\ Len(Result1.image_parameters.parameters) = 1
        /\ Has(Step1, "schedule") <=> Args1.init_image # None
        /\ Has(Step1, "schedule") =>
              Step1.schedule = [start |-> Args1.start_schedule,
                                end |-> Args1.end_schedule]

\* C10's case: no init image, non-default start and end, and no schedule
C10_Witness ==
    /\ Returned("g1")
    /\ Args1.init_image = None
    /\ Args1.start_schedule = 50 /\ Args1.end_schedule = 0
    /\ ~Has(Step1, "schedule")

\* the positions of the request's prompts that are artifacts of type ty
PromptsOfType(ty) ==
    {i \in 1..Len(Result1.prompts) :
        Result1.prompts[i].kind = "artifact" /\ Result1.prompts[i].type = ty}

\* the position of the init-image prompt: the artifact marked init
InitPromptAt ==
    CHOOSE i \in PromptsOfType("ARTIFACT_IMAGE") : Result1.prompts[i].init

\* C11: with mask_from_image_alpha, an init image and no mask image, the
\* request has exactly one mask prompt, placed after the init-image prompt;
\* it carries no binary, refers to the uuid minted for the init-image
\* prompt, and has two adjustments: alpha copied to r, g and b, then invert.
C11_AlphaMaskRefersToInit ==
    (Returned("g1") /\ Args1.init_image # None /\ Args1.mask_image = None
     /\ Args1.mask_from_image_alpha)
        => /\ Cardinality(PromptsOfType("ARTIFACT_MASK")) = 1
           /\ \A i \in PromptsOfType("ARTIFACT_MASK") :
                LET m == Result1.prompts[i] IN
                /\ i > InitPromptAt
                /\ m.binary = None
                /\ m.ref # None
                /\ Some(m.ref[1].uuid) = Result1.prompts[InitPromptAt].uuid
                /\ Len(m.adjustments) = 2
                /\ m.adjustments[1].kind = "channels"
                /\ m.adjustments[1].r = "CHANNEL_A"
                /\ m.adjustments[1].g = "CHANNEL_A"
                /\ m.adjustments[1].b = "CHANNEL_A"
                /\ m.adjustments[2].kind = "invert"

\* C11's case: an alpha mask next to a depth image, which mints a second
\* uuid the mask must not refer to
C11_Witness ==
    /\ Returned("g1")
    /\ Args1.init_image # None /\ Args1.mask_image = None
    /\ Args1.mask_from_image_alpha
    /\ Args1.depth_image # None
    /\ PromptsOfType("ARTIFACT_MASK") # {}

\* C12: a falsy seed becomes one element, and the values that element can
\* take are all of 0..SeedStop, the stop value included; a non-zero scalar s
\* becomes <<s>>; a non-empty list is passed on element by element.
C12_SeedNormalized ==
    Returned("g1") =>
        LET seed == Result1.image_parameters.seed IN
        IF ~TruthyPy(Args1.seed)
            THEN /\ Len(seed) = 1
                 /\ seed[1] \in 0..SeedStop
                 /\ \A v \in 0..SeedStop :
                        \E rnd \in SeedDraws(Args1) :
                            ResolveSeed(Args1.seed, rnd) = <<v>>
        ELSE IF Args1.seed.t = "int" THEN seed = <<Args1.seed.n>>
        ELSE seed = Args1.seed.xs

\* C13: with a non-default guidance preset or a guidance strength, the
\* guidance block has exactly one instance, whose prompt is the caller's
\* guidance prompt when one was supplied and the main prompt when none was;
\* otherwise the request has no guidance block.
C13_GuidancePromptDefaults ==
    Returned("g1") =>
        IF Args1.guidance_preset # "GUIDANCE_PRESET_NONE"
           \/ Args1.guidance_strength # None
            THEN /\ Has(Step1, "guidance")
                 /\ Len(Step1.guidance.instances) = 1
                 /\ LET inst == Step1.guidance.instances[1] IN
                    /\ Has(inst, "prompt")
                    /\ IF Args1.guidance_prompt # PyNone
                        THEN inst.prompt = PyPrompt(C9_Carried(Args1.guidance_prompt))
                        ELSE \E i \in 1..Len(Result1.prompts) :
                                inst.prompt = PyPrompt(Result1.prompts[i])
            ELSE ~Has(Step1, "guidance")

\* what holds of submission g in every state
C14_OneSubmit(g) ==
    /\ srv[g].rpcs.Generate + srv[g].rpcs.AsyncGenerate
            = (IF sub[g].pulls > 0 THEN 1 ELSE 0)
    /\ srv[g].error # None <=> sub[g].pc = "failed"
    /\ sub[g].pc = "failed" => sub[g].raised = srv[g].error

\* what a step leaves alone once submission g has failed
C14_Ended(g) ==
    /\ sub'[g] = sub[g]
    /\ srv'[g].rpcs.Generate = srv[g].rpcs.Generate
    /\ srv'[g].rpcs.AsyncGenerate = srv[g].rpcs.AsyncGenerate
    /\ srv'[g].rpcs.AsyncResult = srv[g].rpcs.AsyncResult

\* C14: a consumed invocation issues exactly one submit RPC; when the
\* submit, a poll or a stream read fails, the error raised is the one that
\* leaves the generator, the generator is finished, and from then on no
\* submit or poll RPC is issued for it and the Answers it yielded stay.
C14_FailureEndsSubmission ==
    /\ [](\A g \in Subs : C14_OneSubmit(g))
    /\ [][\A g \in Subs : sub[g].pc = "failed" => C14_Ended(g)]_vars

\* C14's case: the first submission failed on a poll after two Answers were
\* yielded, and the process went on to submit a second one
C14_Witness ==
    /\ IsAsync("g1")
    /\ sub["g1"].pc = "failed"
    /\ sub["g1"].raised = Some("UNAVAILABLE")
    /\ Len(sub["g1"].yielded) = 2
    /\ srv["g1"].rpcs.AsyncResult >= 2
    /\ Submitted("g2")

\* the request's LoRA prompts, in order
C15_LoraPrompts ==
    LET IsLora(p) == p.kind = "artifact" /\ p.type = "ARTIFACT_LORA"
    IN SelectSeq(Result1.prompts, IsLora)

\* C15: a LoRA entry with n weights gives a LoRA prompt with min(n, 2)
\* named weights, the first for unet and the second for text_encoder, with
\* the caller's values; further weights add no entry and raise nothing.
C15_LoraWeightsFirstTwo ==
    (call["g1"].status = "called" /\ Args1.lora # None) =>
        /\ Returned("g1")
        /\ Len(C15_LoraPrompts) = Len(Args1.lora[1])
        /\ \A i \in 1..Len(Args1.lora[1]) :
            LET w == Args1.lora[1][i].weights
                lw == C15_LoraPrompts[i].lora.weights
            IN /\ Len(lw) = (IF Len(w) < 2 THEN Len(w) ELSE 2)
               /\ Len(w) >= 1 => lw[1] = [model_name |-> "unet", weight |-> w[1]]
               /\ Len(w) >= 2 =>
                    lw[2] = [model_name |-> "text_encoder", weight |-> w[2]]

\* C15's case: entries with three weights and with one weight
C15_Witness ==
    /\ Returned("g1")
    /\ Args1.lora # None
    /\ Len(Args1.lora[1]) = 2
    /\ Args1.lora[1][1].weights = <<8, 2, 8>>
    /\ Args1.lora[1][2].weights = <<2>>
    /\ Len(C15_LoraPrompts[1].lora.weights) = 2
    /\ Len(C15_LoraPrompts[2].lora.weights) = 1

\* C16: with an init image, whatever mask_image, mask_from_image_alpha,
\* depth_image and depth_from_image are, the request has at most one mask
\* prompt and at most one depth prompt.
C16_OneMaskOneDepth ==
    (Returned("g1") /\ Args1.init_image # None) =>
        /\ Cardinality(PromptsOfType("ARTIFACT_MASK")) <= 1
        /\ Cardinality(PromptsOfType("ARTIFACT_DEPTH")) <= 1

\* the submissions that have installed a handler
C17_Registered == {g \in Subs : sub[g].regAt > 0}

\* the submission whose signal.signal call was the latest
C17_Latest == CHOOSE g \in C17_Registered : sub[g].regAt = Registrations

====
